---- MODULE Spec2Model ----
(***************************************************************************)
(* Rules engine of UnVoid Chess (src/rust/src/main.rs): the Board (grid,    *)
(* initial layout, move generation, move execution) and the GameState      *)
(* state machine (select, attempt_move, restart).                          *)
(*                                                                         *)
(* Option<T> is modelled as a set with at most one element: None is {} and *)
(* Some(x) is {x}.  Vec<T> is a sequence, in the order the code pushes.    *)
(***************************************************************************)
EXTENDS Integers, Sequences, FiniteSets, TLC

MIN_DIM == 6
MAX_DIM == 12

\* Bounds of the game specification: board sizes played and successful moves
\* per match.
MaxWidth == 6
MaxHeight == 6
MaxMoves == 3

VARIABLES grid, width, height,
          current_player, selected_square_coords, available_moves_for_selected,
          game_over, winner,
          nmoves

vars == <<grid, width, height, current_player, selected_square_coords,
          available_moves_for_selected, game_over, winner, nmoves>>

----------------------------------------------------------------------------
\* Values

PieceType == {"Developer", "Designer", "ProductOwner"}
PlayerColor == {"White", "Black"}

opponent(c) == IF c = "White" THEN "Black" ELSE "White"

Piece(t, c) == [piece_type |-> t, color |-> c]

None == {}
Some(x) == {x}
Unwrap(o) == CHOOSE x \in o : TRUE

MoveDetail(tr, tc, cap, jumped) ==
    [to_r |-> tr, to_c |-> tc, is_capture |-> cap, jumped_piece_coord |-> jumped]

\* Result kinds of the engine's calls (the code returns Err(String); each
\* distinct message is one kind).
Ok == "Ok"
ErrGameOver == "GameOver"
ErrNoPiece == "NoPiece"
ErrWrongColor == "WrongColor"
ErrSameSquare == "SameSquare"
ErrIllegal == "IllegalDestination"
ErrInternal == "Internal"

----------------------------------------------------------------------------
\* Board

EmptyGrid(w, h) == [r \in 0 .. (h - 1) |-> [c \in 0 .. (w - 1) |-> None]]

Put(g, r, c, sq) == [g EXCEPT ![r] = [@ EXCEPT ![c] = sq]]

\* setup_pieces with Black's Developer and Designer in each other's column.
setup_pieces_swapped(w, h) ==
    LET g0 == EmptyGrid(w, h)
        g1 == IF w >= 1 THEN Put(g0, 0, 0, Some(Piece("ProductOwner", "White"))) ELSE g0
        g2 == IF w >= 2 THEN Put(g1, 0, 1, Some(Piece("Developer", "White"))) ELSE g1
        g3 == IF w >= 3 THEN Put(g2, 0, 2, Some(Piece("Designer", "White"))) ELSE g2
        top_row == h - 1
        g4 == IF w >= 1 THEN Put(g3, top_row, w - 1, Some(Piece("ProductOwner", "Black"))) ELSE g3
        g5 == IF w >= 2 THEN Put(g4, top_row, w - 3, Some(Piece("Developer", "Black"))) ELSE g4
        g6 == IF w >= 3 THEN Put(g5, top_row, w - 2, Some(Piece("Designer", "Black"))) ELSE g5
    IN g6

setup_pieces(w, h) ==
    LET g0 == EmptyGrid(w, h)
        g1 == IF w >= 1 THEN Put(g0, 0, 0, Some(Piece("ProductOwner", "White"))) ELSE g0
        g2 == IF w >= 2 THEN Put(g1, 0, 1, Some(Piece("Developer", "White"))) ELSE g1
        g3 == IF w >= 3 THEN Put(g2, 0, 2, Some(Piece("Designer", "White"))) ELSE g2
        top_row == h - 1
        g4 == IF w >= 1 THEN Put(g3, top_row, w - 1, Some(Piece("ProductOwner", "Black"))) ELSE g3
        g5 == IF w >= 2 THEN Put(g4, top_row, w - 2, Some(Piece("Developer", "Black"))) ELSE g4
        g6 == IF w >= 3 THEN Put(g5, top_row, w - 3, Some(Piece("Designer", "Black"))) ELSE g5
    IN g6

BoardNew(w, h) == [grid |-> setup_pieces(w, h), width |-> w, height |-> h]

get_piece(b, r, c) ==
    IF r < b.height /\ c < b.width THEN b.grid[r][c] ELSE None

OnBoard(b, r, c) == r >= 0 /\ r < b.height /\ c >= 0 /\ c < b.width

----------------------------------------------------------------------------
\* Move generation: Board::calculate_valid_moves

\* (dr, dc) in the order of the nested loops dr in -1..=1, dc in -1..=1,
\* with (0, 0) skipped.
\* The direction table with a null direction in it.
CompassDirsWithZero == << <<-1, -1>>, <<-1, 0>>, <<-1, 1>>, <<0, -1>>, <<0, 0>>,
                         <<0, 1>>, <<1, -1>>, <<1, 0>>, <<1, 1>> >>

CompassDirs == << <<-1, -1>>, <<-1, 0>>, <<-1, 1>>, <<0, -1>>,
                 <<0, 1>>, <<1, -1>>, <<1, 0>>, <<1, 1>> >>

l_moves == << <<1, 2>>, <<1, -2>>, <<-1, 2>>, <<-1, -2>>,
             <<2, 1>>, <<2, -1>>, <<-2, 1>>, <<-2, -1>> >>

\* LandingMove without the test of the target piece's colour.
LandingMove_any_target(b, start_r, start_c, piece, off) ==
    LET to_r == start_r + off[1]
        to_c == start_c + off[2]
    IN IF OnBoard(b, to_r, to_c)
       THEN IF b.grid[to_r][to_c] # None
            THEN << MoveDetail(to_r, to_c, TRUE, None) >>
            ELSE << MoveDetail(to_r, to_c, FALSE, None) >>
       ELSE << >>

\* One iteration of the ProductOwner / Designer loop body: the move pushed
\* for offset off, if any.
LandingMove(b, start_r, start_c, piece, off) ==
    LET to_r == start_r + off[1]
        to_c == start_c + off[2]
    IN IF OnBoard(b, to_r, to_c)
       THEN IF b.grid[to_r][to_c] # None
            THEN IF Unwrap(b.grid[to_r][to_c]).color # piece.color
                 THEN << MoveDetail(to_r, to_c, TRUE, None) >>
                 ELSE << >>
            ELSE << MoveDetail(to_r, to_c, FALSE, None) >>
       ELSE << >>

LandingMoves(b, start_r, start_c, piece, offs) ==
    LET F[i \in 0 .. Len(offs)] ==
            IF i = 0 THEN << >>
            ELSE F[i - 1] \o LandingMove(b, start_r, start_c, piece, offs[i])
    IN F[Len(offs)]

\* The inner loop "for step in 1..dist" over the squares between start and
\* target, from step on, with the three flags it maintains.
RECURSIVE PathScan(_, _, _, _, _, _, _, _, _)
PathScan(b, start_r, start_c, piece, dr_base, dc_base, dist, step, jumped) ==
    IF step >= dist
    THEN [jumped_piece_on_path |-> jumped, path_blocked_by_friendly |-> FALSE,
          multiple_opponents_on_path |-> FALSE]
    ELSE LET path_r == start_r + dr_base * step
             path_c == start_c + dc_base * step
         IN IF b.grid[path_r][path_c] # None
            THEN IF Unwrap(b.grid[path_r][path_c]).color = piece.color
                 THEN [jumped_piece_on_path |-> jumped,
                       path_blocked_by_friendly |-> TRUE,
                       multiple_opponents_on_path |-> FALSE]
                 ELSE IF jumped # None
                      THEN [jumped_piece_on_path |-> jumped,
                            path_blocked_by_friendly |-> FALSE,
                            multiple_opponents_on_path |-> TRUE]
                      ELSE PathScan(b, start_r, start_c, piece, dr_base, dc_base,
                                    dist, step + 1, Some(<<path_r, path_c>>))
            ELSE PathScan(b, start_r, start_c, piece, dr_base, dc_base,
                          dist, step + 1, jumped)

\* DeveloperRay that pushes a move onto an occupied target instead of
\* stopping there.
RECURSIVE DeveloperRay_lands_on_pieces(_, _, _, _, _, _, _)
DeveloperRay_lands_on_pieces(b, start_r, start_c, piece, dr_base, dc_base, dist) ==
    IF dist > 3 THEN << >>
    ELSE LET to_r == start_r + dr_base * dist
             to_c == start_c + dc_base * dist
         IN IF ~OnBoard(b, to_r, to_c) THEN << >>
            ELSE IF b.grid[to_r][to_c] # None
                 THEN << MoveDetail(to_r, to_c, FALSE, None) >>
            ELSE << MoveDetail(to_r, to_c, FALSE, None) >>
                 \o DeveloperRay_lands_on_pieces(b, start_r, start_c, piece,
                                                 dr_base, dc_base, dist + 1)

\* DeveloperRay that goes on to the next distance when the target is
\* occupied (continue) instead of leaving the direction (break).
RECURSIVE DeveloperRay_jumps(_, _, _, _, _, _, _)
DeveloperRay_jumps(b, start_r, start_c, piece, dr_base, dc_base, dist) ==
    IF dist > 3 THEN << >>
    ELSE LET to_r == start_r + dr_base * dist
             to_c == start_c + dc_base * dist
             rest == DeveloperRay_jumps(b, start_r, start_c, piece, dr_base,
                                        dc_base, dist + 1)
         IN IF ~OnBoard(b, to_r, to_c) THEN << >>
            ELSE IF b.grid[to_r][to_c] # None THEN rest
            ELSE LET scan == PathScan(b, start_r, start_c, piece, dr_base, dc_base,
                                      dist, 1, None)
                 IN IF scan.path_blocked_by_friendly \/ scan.multiple_opponents_on_path
                    THEN rest
                    ELSE << MoveDetail(to_r, to_c, scan.jumped_piece_on_path # None,
                                       scan.jumped_piece_on_path) >> \o rest

\* The loop "for dist in 1..=3" of one direction, from dist on: break when the
\* target is off the board or occupied, continue when the path is blocked.
RECURSIVE DeveloperRay(_, _, _, _, _, _, _)
DeveloperRay(b, start_r, start_c, piece, dr_base, dc_base, dist) ==
    IF dist > 3 THEN << >>
    ELSE LET to_r == start_r + dr_base * dist
             to_c == start_c + dc_base * dist
         IN IF ~OnBoard(b, to_r, to_c) THEN << >>
            ELSE IF b.grid[to_r][to_c] # None THEN << >>
            ELSE LET scan == PathScan(b, start_r, start_c, piece, dr_base, dc_base,
                                      dist, 1, None)
                     rest == DeveloperRay(b, start_r, start_c, piece, dr_base,
                                          dc_base, dist + 1)
                 IN IF scan.path_blocked_by_friendly \/ scan.multiple_opponents_on_path
                    THEN rest
                    ELSE << MoveDetail(to_r, to_c, scan.jumped_piece_on_path # None,
                                       scan.jumped_piece_on_path) >> \o rest

\* DeveloperMoves with the distances of a direction starting at 2.
DeveloperMoves_from_two(b, start_r, start_c, piece) ==
    LET F[i \in 0 .. Len(CompassDirs)] ==
            IF i = 0 THEN << >>
            ELSE F[i - 1] \o DeveloperRay(b, start_r, start_c, piece,
                                          CompassDirs[i][1], CompassDirs[i][2], 2)
    IN F[Len(CompassDirs)]

DeveloperMoves(b, start_r, start_c, piece) ==
    LET F[i \in 0 .. Len(CompassDirs)] ==
            IF i = 0 THEN << >>
            ELSE F[i - 1] \o DeveloperRay(b, start_r, start_c, piece,
                                          CompassDirs[i][1], CompassDirs[i][2], 1)
    IN F[Len(CompassDirs)]

calculate_valid_moves(b, start_r, start_c, piece) ==
    CASE piece.piece_type = "ProductOwner" ->
            LandingMoves(b, start_r, start_c, piece, CompassDirs)
      [] piece.piece_type = "Designer" ->
            LandingMoves(b, start_r, start_c, piece, l_moves)
      [] piece.piece_type = "Developer" ->
            DeveloperMoves(b, start_r, start_c, piece)

----------------------------------------------------------------------------
\* Move execution: Board::move_piece

\* valid_moves.iter().find(|m| m.to_r == to_r && m.to_c == to_c): the first
\* matching entry, as an Option.
FindMove(valid_moves, to_r, to_c) ==
    LET idx == {i \in 1 .. Len(valid_moves) :
                   valid_moves[i].to_r = to_r /\ valid_moves[i].to_c = to_c}
    IN IF idx = {} THEN None
       ELSE Some(valid_moves[CHOOSE i \in idx : \A j \in idx : i <= j])

\* perform_move that takes the piece of the destination without returning it.
perform_move_drops_report(b, from_r, from_c, to_r, to_c, moving_piece, valid_move_info) ==
    LET g1 == Put(b.grid, from_r, from_c, None)
    IN IF valid_move_info.is_capture
       THEN IF moving_piece.piece_type = "Developer"
            THEN IF valid_move_info.jumped_piece_coord # None
                 THEN LET j == Unwrap(valid_move_info.jumped_piece_coord)
                          g2 == Put(g1, j[1], j[2], None)
                      IN [grid |-> Put(g2, to_r, to_c, Some(moving_piece)),
                          err |-> Ok,
                          captured |-> g1[j[1]][j[2]]]
                 ELSE [grid |-> g1, err |-> ErrInternal, captured |-> None]
            ELSE [grid |-> Put(g1, to_r, to_c, Some(moving_piece)),
                  err |-> Ok,
                  captured |-> None]
       ELSE [grid |-> Put(g1, to_r, to_c, Some(moving_piece)),
             err |-> Ok, captured |-> None]

\* perform_move that returns the jumped piece but leaves it on the board.
perform_move_keeps_jumped(b, from_r, from_c, to_r, to_c, moving_piece, valid_move_info) ==
    LET g1 == Put(b.grid, from_r, from_c, None)
    IN IF valid_move_info.is_capture
       THEN IF moving_piece.piece_type = "Developer"
            THEN IF valid_move_info.jumped_piece_coord # None
                 THEN LET j == Unwrap(valid_move_info.jumped_piece_coord)
                      IN [grid |-> Put(g1, to_r, to_c, Some(moving_piece)),
                          err |-> Ok,
                          captured |-> g1[j[1]][j[2]]]
                 ELSE [grid |-> g1, err |-> ErrInternal, captured |-> None]
            ELSE [grid |-> Put(g1, to_r, to_c, Some(moving_piece)),
                  err |-> Ok,
                  captured |-> g1[to_r][to_c]]
       ELSE [grid |-> Put(g1, to_r, to_c, Some(moving_piece)),
             err |-> Ok, captured |-> None]

\* "Perform the move": the part of move_piece after the four validations.
\* Returns the grid after the call, the result kind and the captured piece.
perform_move(b, from_r, from_c, to_r, to_c, moving_piece, valid_move_info) ==
    LET g1 == Put(b.grid, from_r, from_c, None)
    IN IF valid_move_info.is_capture
       THEN IF moving_piece.piece_type = "Developer"
            THEN IF valid_move_info.jumped_piece_coord # None
                 THEN LET j == Unwrap(valid_move_info.jumped_piece_coord)
                          g2 == Put(g1, j[1], j[2], None)
                      IN [grid |-> Put(g2, to_r, to_c, Some(moving_piece)),
                          err |-> Ok,
                          captured |-> g1[j[1]][j[2]]]
                 ELSE [grid |-> g1, err |-> ErrInternal, captured |-> None]
            ELSE [grid |-> Put(g1, to_r, to_c, Some(moving_piece)),
                  err |-> Ok,
                  captured |-> g1[to_r][to_c]]
       ELSE [grid |-> Put(g1, to_r, to_c, Some(moving_piece)),
             err |-> Ok, captured |-> None]

\* move_piece with the source square cleared before validation 4.
move_piece_clears_first(b, from_r, from_c, to_r, to_c, player, valid_moves) ==
    LET moving_piece_option == get_piece(b, from_r, from_c)
        Fail(e) == [grid |-> b.grid, err |-> e, captured |-> None]
    IN IF moving_piece_option = None THEN Fail(ErrNoPiece)
       ELSE LET moving_piece == Unwrap(moving_piece_option)
                move_detail == FindMove(valid_moves, to_r, to_c)
            IN IF moving_piece.color # player THEN Fail(ErrWrongColor)
               ELSE IF from_r = to_r /\ from_c = to_c THEN Fail(ErrSameSquare)
               ELSE IF move_detail = None
                    THEN [grid |-> Put(b.grid, from_r, from_c, None),
                          err |-> ErrIllegal, captured |-> None]
               ELSE perform_move(b, from_r, from_c, to_r, to_c, moving_piece,
                                 Unwrap(move_detail))

\* move_piece with validations 3 and 4 in the other order.
move_piece_legal_before_same(b, from_r, from_c, to_r, to_c, player, valid_moves) ==
    LET moving_piece_option == get_piece(b, from_r, from_c)
        Fail(e) == [grid |-> b.grid, err |-> e, captured |-> None]
    IN IF moving_piece_option = None THEN Fail(ErrNoPiece)
       ELSE LET moving_piece == Unwrap(moving_piece_option)
                move_detail == FindMove(valid_moves, to_r, to_c)
            IN IF moving_piece.color # player THEN Fail(ErrWrongColor)
               ELSE IF move_detail = None THEN Fail(ErrIllegal)
               ELSE IF from_r = to_r /\ from_c = to_c THEN Fail(ErrSameSquare)
               ELSE perform_move(b, from_r, from_c, to_r, to_c, moving_piece,
                                 Unwrap(move_detail))

\* Returns the grid after the call, the result kind and the captured piece.
move_piece(b, from_r, from_c, to_r, to_c, player, valid_moves) ==
    LET moving_piece_option == get_piece(b, from_r, from_c)
        Fail(e) == [grid |-> b.grid, err |-> e, captured |-> None]
    IN IF moving_piece_option = None THEN Fail(ErrNoPiece)
       ELSE LET moving_piece == Unwrap(moving_piece_option)
                move_detail == FindMove(valid_moves, to_r, to_c)
            IN IF moving_piece.color # player THEN Fail(ErrWrongColor)
               ELSE IF from_r = to_r /\ from_c = to_c THEN Fail(ErrSameSquare)
               ELSE IF move_detail = None THEN Fail(ErrIllegal)
               ELSE perform_move(b, from_r, from_c, to_r, to_c, moving_piece,
                                 Unwrap(move_detail))

----------------------------------------------------------------------------
\* GameState

\* GameState::new that hands the first turn to Black.
GameStateNew_black_first(w, h) ==
    [board |-> BoardNew(w, h),
     current_player |-> "Black",
     selected_square_coords |-> None,
     available_moves_for_selected |-> None,
     game_over |-> FALSE,
     winner |-> None]

GameStateNew(w, h) ==
    [board |-> BoardNew(w, h),
     current_player |-> "White",
     selected_square_coords |-> None,
     available_moves_for_selected |-> None,
     game_over |-> FALSE,
     winner |-> None]

\* switch_player that passes the turn but keeps the selection and its list.
switch_player_keeps_cache(gs) ==
    [gs EXCEPT !.current_player = opponent(gs.current_player)]

\* switch_player that clears the selection but keeps the turn.
switch_player_keeps_turn(gs) ==
    [gs EXCEPT !.selected_square_coords = None,
               !.available_moves_for_selected = None]

switch_player(gs) ==
    [gs EXCEPT !.current_player = opponent(gs.current_player),
               !.selected_square_coords = None,
               !.available_moves_for_selected = None]

\* select_piece without the game-over check.
select_piece_ignores_game_over(gs, r, c) ==
    IF get_piece(gs.board, r, c) # None
    THEN LET piece == Unwrap(get_piece(gs.board, r, c))
         IN IF piece.color = gs.current_player
            THEN [gs |-> [gs EXCEPT
                            !.selected_square_coords = Some(<<r, c>>),
                            !.available_moves_for_selected =
                                Some(calculate_valid_moves(gs.board, r, c, piece))],
                  err |-> Ok]
            ELSE [gs |-> gs, err |-> ErrWrongColor]
    ELSE [gs |-> gs, err |-> ErrNoPiece]

\* select_piece without the colour check.
select_piece_any_color(gs, r, c) ==
    IF gs.game_over THEN [gs |-> gs, err |-> ErrGameOver]
    ELSE IF get_piece(gs.board, r, c) # None
         THEN LET piece == Unwrap(get_piece(gs.board, r, c))
              IN [gs |-> [gs EXCEPT
                            !.selected_square_coords = Some(<<r, c>>),
                            !.available_moves_for_selected =
                                Some(calculate_valid_moves(gs.board, r, c, piece))],
                  err |-> Ok]
         ELSE [gs |-> gs, err |-> ErrNoPiece]

\* Returns the GameState after the call and the result kind.
select_piece(gs, r, c) ==
    IF gs.game_over THEN [gs |-> gs, err |-> ErrGameOver]
    ELSE IF get_piece(gs.board, r, c) # None
         THEN LET piece == Unwrap(get_piece(gs.board, r, c))
              IN IF piece.color = gs.current_player
                 THEN [gs |-> [gs EXCEPT
                                 !.selected_square_coords = Some(<<r, c>>),
                                 !.available_moves_for_selected =
                                     Some(calculate_valid_moves(gs.board, r, c, piece))],
                       err |-> Ok]
                 ELSE [gs |-> gs, err |-> ErrWrongColor]
         ELSE [gs |-> gs, err |-> ErrNoPiece]

\* current_valid_moves that reuses the cached list whenever a selection
\* exists, whichever square it is for.
current_valid_moves_any_selection(gs, from_r, from_c) ==
    LET p == get_piece(gs.board, from_r, from_c)
    IN IF gs.selected_square_coords # None
       THEN IF gs.available_moves_for_selected # None
            THEN [early |-> Ok, moves |-> Unwrap(gs.available_moves_for_selected)]
            ELSE IF p # None /\ Unwrap(p).color = gs.current_player
                 THEN [early |-> Ok,
                       moves |-> calculate_valid_moves(gs.board, from_r, from_c, Unwrap(p))]
                 ELSE [early |-> Ok, moves |-> << >>]
       ELSE IF p # None
            THEN IF Unwrap(p).color = gs.current_player
                 THEN [early |-> Ok,
                       moves |-> calculate_valid_moves(gs.board, from_r, from_c, Unwrap(p))]
                 ELSE [early |-> ErrWrongColor, moves |-> << >>]
            ELSE [early |-> ErrNoPiece, moves |-> << >>]

\* current_valid_moves with the colour test of a direct move inverted.
current_valid_moves_inverted_colour(gs, from_r, from_c) ==
    LET p == get_piece(gs.board, from_r, from_c)
    IN IF gs.selected_square_coords = Some(<<from_r, from_c>>)
       THEN IF gs.available_moves_for_selected # None
            THEN [early |-> Ok, moves |-> Unwrap(gs.available_moves_for_selected)]
            ELSE IF p # None /\ Unwrap(p).color = gs.current_player
                 THEN [early |-> Ok,
                       moves |-> calculate_valid_moves(gs.board, from_r, from_c, Unwrap(p))]
                 ELSE [early |-> Ok, moves |-> << >>]
       ELSE IF p # None
            THEN IF Unwrap(p).color # gs.current_player
                 THEN [early |-> Ok,
                       moves |-> calculate_valid_moves(gs.board, from_r, from_c, Unwrap(p))]
                 ELSE [early |-> ErrWrongColor, moves |-> << >>]
            ELSE [early |-> ErrNoPiece, moves |-> << >>]

\* The move list attempt_move validates against ("let current_valid_moves =
\* ..."): the list, or the error of the early return taken instead.
current_valid_moves(gs, from_r, from_c) ==
    LET p == get_piece(gs.board, from_r, from_c)
    IN IF gs.selected_square_coords = Some(<<from_r, from_c>>)
       THEN IF gs.available_moves_for_selected # None
            THEN [early |-> Ok, moves |-> Unwrap(gs.available_moves_for_selected)]
            ELSE IF p # None /\ Unwrap(p).color = gs.current_player
                 THEN [early |-> Ok,
                       moves |-> calculate_valid_moves(gs.board, from_r, from_c, Unwrap(p))]
                 ELSE [early |-> Ok, moves |-> << >>]
       ELSE IF p # None
            THEN IF Unwrap(p).color = gs.current_player
                 THEN [early |-> Ok,
                       moves |-> calculate_valid_moves(gs.board, from_r, from_c, Unwrap(p))]
                 ELSE [early |-> ErrWrongColor, moves |-> << >>]
            ELSE [early |-> ErrNoPiece, moves |-> << >>]

\* finish_move that never ends the game.
finish_move_never_ends(gs, mp) ==
    LET moved == [gs EXCEPT !.board.grid = mp.grid]
    IN IF mp.err = Ok
       THEN [gs |-> switch_player(moved), err |-> Ok, captured |-> mp.captured]
       ELSE [gs |-> moved, err |-> mp.err, captured |-> None]

\* finish_move that passes the turn after the winning move too.
finish_move_always_switches(gs, mp) ==
    LET moved == [gs EXCEPT !.board.grid = mp.grid]
        over == IF mp.captured # None
                   /\ Unwrap(mp.captured).piece_type = "ProductOwner"
                THEN [moved EXCEPT !.game_over = TRUE,
                                   !.winner = Some(gs.current_player)]
                ELSE moved
    IN IF mp.err = Ok
       THEN [gs |-> switch_player(over), err |-> Ok, captured |-> mp.captured]
       ELSE [gs |-> moved, err |-> mp.err, captured |-> None]

\* "match self.board.move_piece(...)": what attempt_move does with
\* move_piece's result mp, the board being the one move_piece left.
finish_move(gs, mp) ==
    LET moved == [gs EXCEPT !.board.grid = mp.grid]
        over == IF mp.captured # None
                   /\ Unwrap(mp.captured).piece_type = "ProductOwner"
                THEN [moved EXCEPT !.game_over = TRUE,
                                   !.winner = Some(gs.current_player)]
                ELSE moved
    IN IF mp.err = Ok
       THEN [gs |-> IF ~over.game_over THEN switch_player(over) ELSE over,
             err |-> Ok, captured |-> mp.captured]
       ELSE [gs |-> moved, err |-> mp.err, captured |-> None]

\* Returns the GameState after the call, the result kind and the piece the
\* call reports as captured.
attempt_move(gs, from_r, from_c, to_r, to_c) ==
    IF gs.game_over THEN [gs |-> gs, err |-> ErrGameOver, captured |-> None]
    ELSE LET cvm == current_valid_moves(gs, from_r, from_c)
         IN IF cvm.early # Ok THEN [gs |-> gs, err |-> cvm.early, captured |-> None]
            ELSE finish_move(gs, move_piece(gs.board, from_r, from_c, to_r, to_c,
                                            gs.current_player, cvm.moves))

----------------------------------------------------------------------------
\* The state machine: one GameState driven by the calls the driver makes.

GS == [board |-> [grid |-> grid, width |-> width, height |-> height],
       current_player |-> current_player,
       selected_square_coords |-> selected_square_coords,
       available_moves_for_selected |-> available_moves_for_selected,
       game_over |-> game_over,
       winner |-> winner]

Becomes(gs) ==
    /\ grid' = gs.board.grid
    /\ width' = gs.board.width
    /\ height' = gs.board.height
    /\ current_player' = gs.current_player
    /\ selected_square_coords' = gs.selected_square_coords
    /\ available_moves_for_selected' = gs.available_moves_for_selected
    /\ game_over' = gs.game_over
    /\ winner' = gs.winner

\* Square arguments of a call: every square of the board, and one square off
\* the board in both coordinates (the engine takes any usize pair).
Squares == {<<r, c>> : r \in 0 .. (height - 1), c \in 0 .. (width - 1)}
OffBoard == <<height, width>>
ArgSquares == Squares \cup {OffBoard}

Init ==
    /\ width \in MIN_DIM .. MaxWidth
    /\ height \in MIN_DIM .. MaxHeight
    /\ grid = setup_pieces(width, height)
    /\ current_player = "White"
    /\ selected_square_coords = None
    /\ available_moves_for_selected = None
    /\ game_over = FALSE
    /\ winner = None
    /\ nmoves = 0

\* The match is followed for MaxMoves successful moves (nmoves counts them
\* since the last restart); calls made after the game has ended are followed
\* without limit.
CallsFollowed == nmoves < MaxMoves \/ game_over

Select(sq) ==
    LET out == select_piece(GS, sq[1], sq[2])
    IN /\ Becomes(out.gs)
       /\ UNCHANGED nmoves

AttemptMove(from, to) ==
    LET out == attempt_move(GS, from[1], from[2], to[1], to[2])
    IN /\ Becomes(out.gs)
       /\ nmoves' = IF out.err = Ok THEN nmoves + 1 ELSE nmoves

\* "restart" in main: game_state = GameState::new(board_width, board_height).
Restart ==
    /\ Becomes(GameStateNew(width, height))
    /\ nmoves' = 0

Next ==
    \/ CallsFollowed /\ \E sq \in ArgSquares : Select(sq)
    \/ CallsFollowed /\ \E from \in ArgSquares, to \in ArgSquares :
                           AttemptMove(from, to)
    \/ Restart

Spec == Init /\ [][Next]_vars

\* Construction on every board size the driver accepts (get_board_dimension
\* returns a value in MIN_DIM..=MAX_DIM), followed by selections and restarts.
InitSetup ==
    /\ width \in MIN_DIM .. MAX_DIM
    /\ height \in MIN_DIM .. MAX_DIM
    /\ grid = setup_pieces(width, height)
    /\ current_player = "White"
    /\ selected_square_coords = None
    /\ available_moves_for_selected = None
    /\ game_over = FALSE
    /\ winner = None
    /\ nmoves = 0

NextSetup ==
    \/ \E sq \in ArgSquares : Select(sq)
    \/ Restart

SpecSetup == InitSetup /\ [][NextSetup]_vars

\* The game on every board size the driver accepts: select, move and restart,
\* with calls followed until MaxSizeMoves moves have been made.
MaxSizeMoves == 1

NextSizes ==
    \/ nmoves < MaxSizeMoves /\ \E sq \in ArgSquares : Select(sq)
    \/ nmoves < MaxSizeMoves /\ \E from \in ArgSquares, to \in ArgSquares :
                                   AttemptMove(from, to)
    \/ Restart

SpecSizes == InitSetup /\ [][NextSizes]_vars

\* Coordinate text. A string is the sequence of the Unicode code points of
\* its characters; its length in the code (s.len()) is the number of bytes of
\* its UTF-8 encoding.
ErrFormat == "InvalidFormat"
ErrRowNumber == "InvalidRowNumber"
ErrRowBounds == "RowOutOfBounds"
ErrColBounds == "ColumnOutOfBounds"

\* "{}" of a usize: its decimal digits, most significant first.
RECURSIVE Decimal(_)
Decimal(n) ==
    IF n < 10 THEN << 48 + n >>
    ELSE Decimal(n \div 10) \o << 48 + (n % 10) >>

\* coords_to_algebraic with the row written from zero.
coords_to_algebraic_zero_based(r, c, board_height) ==
    << 65 + (c % 256) >> \o Decimal(r)

\* (b'A' + c as u8) as char, then r + 1 in decimal. The sum stays below 256
\* for every column of a board (width <= 12).
coords_to_algebraic(r, c, board_height) ==
    << 65 + (c % 256) >> \o Decimal(r + 1)

to_ascii_uppercase(ch) == IF ch \in 97 .. 122 THEN ch - 32 ELSE ch

RECURSIVE DigitsValue(_)
DigitsValue(digits) ==
    IF digits = << >> THEN 0
    ELSE 10 * DigitsValue(SubSeq(digits, 1, Len(digits) - 1))
         + (digits[Len(digits)] - 48)

\* The digits of usize::MAX, 18446744073709551615 (a 64-bit usize).
UsizeMaxDigits ==
    <<49, 56, 52, 52, 54, 55, 52, 52, 48, 55, 51, 55, 48, 57, 53, 53, 49, 54, 49, 53>>

\* A digit string without its leading zeros.
RECURSIVE StripZeros(_)
StripZeros(digits) ==
    IF digits # << >> /\ Head(digits) = 48 THEN StripZeros(Tail(digits)) ELSE digits

\* The number a digit string writes is above usize::MAX (PosOverflow):
\* decided on the digits, longer than those of usize::MAX or of the same
\* length and greater at the first digit that differs.
Overflows(digits) ==
    LET sig == StripZeros(digits)
    IN \/ Len(sig) > Len(UsizeMaxDigits)
       \/ /\ Len(sig) = Len(UsizeMaxDigits)
          /\ \E i \in 1 .. Len(sig) :
                /\ sig[i] > UsizeMaxDigits[i]
                /\ \A k \in 1 .. (i - 1) : sig[k] = UsizeMaxDigits[k]

\* str::parse::<usize>: one leading '+' is accepted, then at least one
\* character, all of them ASCII decimal digits (leading zeros allowed),
\* writing a number that is not above usize::MAX.
parse_usize(str) ==
    LET digits == IF Len(str) > 1 /\ str[1] = 43 THEN Tail(str) ELSE str
    IN IF digits = << >> \/ \E i \in 1 .. Len(digits) : digits[i] \notin 48 .. 57
       THEN None
       ELSE IF Overflows(digits) THEN None
       ELSE Some(DigitsValue(digits))

\* The number of bytes UTF-8 encodes the character ch in.
Utf8Len(ch) ==
    IF ch < 128 THEN 1 ELSE IF ch < 2048 THEN 2 ELSE IF ch < 65536 THEN 3 ELSE 4

\* s.len(): the length of the string in bytes.
RECURSIVE ByteLen(_)
ByteLen(s) ==
    IF s = << >> THEN 0 ELSE Utf8Len(Head(s)) + ByteLen(Tail(s))

algebraic_to_coords(s, board_height, board_width) ==
    IF ByteLen(s) < 2 THEN [err |-> ErrFormat, coords |-> None]
    ELSE LET col_char == to_ascii_uppercase(s[1])
             row_str == Tail(s)
             col_idx == ((col_char % 256) - 65) % 256
             parsed == parse_usize(row_str)
         IN IF parsed = None THEN [err |-> ErrRowNumber, coords |-> None]
            ELSE LET row_num == Unwrap(parsed)
                 IN IF row_num = 0 \/ row_num > board_height
                    THEN [err |-> ErrRowBounds, coords |-> None]
                    ELSE IF col_idx >= board_width
                    THEN [err |-> ErrColBounds, coords |-> None]
                    ELSE [err |-> Ok, coords |-> Some(<<row_num - 1, col_idx>>)]

\* The coordinate words typed at the prompt: the name of every square of the
\* board and of the squares one row and one column beyond it, in upper and
\* in lower case, the words "A", "A0", "A01", "A+1", "A-1", "1A", "AA", "@1"
\* and "A1x", three words with a character outside ASCII: U+00E9 alone
\* (one character, two bytes), U+00E9 followed by "1", and U+0141 followed
\* by "1" (as u8 the code point 321 is 65, the letter A), and three words
\* whose row overflows a usize: "A18446744073709551616" (usize::MAX + 1),
\* "A+18446744073709551616" and "A099999999999999999999".
SquareNames ==
    {coords_to_algebraic(r, c, height) : r \in 0 .. height, c \in 0 .. width}

CommandWords ==
    SquareNames
    \cup {<< w[1] + 32 >> \o Tail(w) : w \in SquareNames}
    \cup {<<65>>, <<65, 48>>, <<65, 48, 49>>, <<65, 43, 49>>, <<65, 45, 49>>,
          <<49, 65>>, <<65, 65>>, <<64, 49>>, <<65, 49, 120>>,
          <<233>>, <<233, 49>>, <<321, 49>>,
          <<65>> \o SubSeq(UsizeMaxDigits, 1, 19) \o <<54>>,
          <<65, 43>> \o SubSeq(UsizeMaxDigits, 1, 19) \o <<54>>,
          <<65, 48>> \o [i \in 1 .. 20 |-> 57]}

\* "select <square>" in main: the word is parsed; a word that does not name
\* a square of the board is reported and the game is left as it is.
SelectCommand(sq_str) ==
    LET parsed == algebraic_to_coords(sq_str, height, width)
    IN IF parsed.err = Ok
       THEN Select(Unwrap(parsed.coords))
       ELSE UNCHANGED vars

NextCommands ==
    \/ \E sq_str \in CommandWords : SelectCommand(sq_str)
    \/ Restart

SpecCommands == InitSetup /\ [][NextCommands]_vars

\* Board::move_piece called directly, with any mover colour and a supplied
\* move list: the empty list, or one entry whose destination is the call's
\* destination or (an entry that does not match) its source, with either
\* capture flag and a jumped coordinate that is absent or any square of the
\* board (an entry off the board would make the code index out of bounds).
\* MaxCalls calls are followed; nmoves counts them.
MaxCalls == 1

JumpArgs == {None} \cup {Some(q) : q \in Squares}

MoveLists(from, to) ==
    {<< >>} \cup {<< MoveDetail(d[1], d[2], cap, j) >> :
                     d \in {from, to} \cap Squares, cap \in BOOLEAN, j \in JumpArgs}

MP(from, to, player, valid_moves) ==
    move_piece(GS.board, from[1], from[2], to[1], to[2], player, valid_moves)

MovePiece(from, to, player, valid_moves) ==
    /\ grid' = MP(from, to, player, valid_moves).grid
    /\ nmoves' = nmoves + 1
    /\ UNCHANGED <<width, height, current_player, selected_square_coords,
                   available_moves_for_selected, game_over, winner>>

NextMovePiece ==
    /\ nmoves < MaxCalls
    /\ \E from \in ArgSquares, to \in ArgSquares, player \in PlayerColor :
          \E valid_moves \in MoveLists(from, to) :
             MovePiece(from, to, player, valid_moves)

SpecMovePiece == Init /\ [][NextMovePiece]_vars

----------------------------------------------------------------------------
\* Calls on the current state, and what a caller observes of them.

SP(sq) == select_piece(GS, sq[1], sq[2])
AM(from, to) == attempt_move(GS, from[1], from[2], to[1], to[2])

At(g, sq) == g[sq[1]][sq[2]]

RoyalCaptured(out) ==
    out.captured # None /\ Unwrap(out.captured).piece_type = "ProductOwner"

RoyalCount(c) ==
    Cardinality({sq \in Squares : At(grid, sq) = Some(Piece("ProductOwner", c))})

PieceCount == Cardinality({sq \in Squares : At(grid, sq) # None})

\* Board, turn and outcome of a state, without the selection and its cache.
Position(gs) ==
    [grid |-> gs.board.grid, current_player |-> gs.current_player,
     game_over |-> gs.game_over, winner |-> gs.winner]

----------------------------------------------------------------------------
\* C1 (as claimed): a Runner (Developer) next to a lone opponent piece, with
\* the square behind that piece on the board and empty, has the distance-2
\* square among its legal moves as a capture whose jumped coordinate is the
\* intervening square; and when it is that Runner's turn, attempt_move to that
\* square succeeds, returns the intervening piece as captured, removes it and
\* leaves the Runner on the distance-2 square.
CE_C1_RunnerJumpCapture ==
    \A s \in Squares, i \in 1 .. Len(CompassDirs) :
        LET d == CompassDirs[i]
            a == <<s[1] + d[1], s[2] + d[2]>>
            t == <<s[1] + 2 * d[1], s[2] + 2 * d[2]>>
            runner == Unwrap(At(grid, s))
            moves == calculate_valid_moves(GS.board, s[1], s[2], runner)
            out == AM(s, t)
        IN (/\ At(grid, s) # None
            /\ runner.piece_type = "Developer"
            /\ OnBoard(GS.board, t[1], t[2])
            /\ At(grid, a) # None
            /\ Unwrap(At(grid, a)).color = opponent(runner.color)
            /\ At(grid, t) = None)
           => /\ \E k \in 1 .. Len(moves) :
                    moves[k] = MoveDetail(t[1], t[2], TRUE, Some(a))
              /\ (~game_over /\ runner.color = current_player)
                    => /\ out.err = Ok
                       /\ out.captured = At(grid, a)
                       /\ At(out.gs.board.grid, a) = None
                       /\ At(out.gs.board.grid, s) = None
                       /\ At(out.gs.board.grid, t) = Some(runner)

\* C2: a successful attempt_move that captures a ProductOwner ends the game
\* in that step with the mover as winner; and once the game is over every
\* select_piece and attempt_move call fails with the game-over error and
\* leaves the state, game_over and winner included, as it was.
Thm_C2_GameEndTerminal ==
    /\ \A from \in ArgSquares, to \in ArgSquares :
          LET out == AM(from, to)
          IN (out.err = Ok /\ RoyalCaptured(out))
                => out.gs.game_over /\ out.gs.winner = Some(current_player)
    /\ game_over =>
          /\ winner # None
          /\ \A sq \in ArgSquares : SP(sq) = [gs |-> GS, err |-> ErrGameOver]
          /\ \A from \in ArgSquares, to \in ArgSquares :
                AM(from, to) = [gs |-> GS, err |-> ErrGameOver, captured |-> None]

\* A Royal has been captured: the game is over with the capturing colour as
\* winner, and calls made now are refused.
Wit_C2_GameOver ==
    /\ game_over
    /\ winner = Some("White")
    /\ RoyalCount("Black") = 0
    /\ AM(<<0, 0>>, <<1, 0>>).err = ErrGameOver

\* C3: while the game is not over the board holds exactly one ProductOwner of
\* each colour, and every square holds at most one piece.
Thm_C3_RoyalInvariant ==
    /\ \A sq \in Squares : Cardinality(At(grid, sq)) <= 1
    /\ ~game_over => RoyalCount("White") = 1 /\ RoyalCount("Black") = 1

\* A capture has happened and the game goes on.
Wit_C3_CaptureGameOn ==
    ~game_over /\ PieceCount < 6 /\ nmoves > 0

\* C4: select_piece and a failed attempt_move leave the current player as it
\* is; a successful attempt_move that captures no ProductOwner hands the turn
\* to the mover's opponent, one that captures a ProductOwner does not change
\* it; the mover is the current player.  Hence White makes the first
\* successful move and successive successful moves alternate colours.
Thm_C4_TurnAlternation ==
    /\ \A sq \in ArgSquares : SP(sq).gs.current_player = current_player
    /\ \A from \in ArgSquares, to \in ArgSquares :
          LET out == AM(from, to)
          IN /\ out.err = Ok => Unwrap(At(grid, from)).color = current_player
             /\ out.gs.current_player =
                   IF out.err = Ok /\ ~RoyalCaptured(out)
                   THEN opponent(current_player) ELSE current_player
    /\ LET made == IF game_over THEN nmoves - 1 ELSE nmoves
       IN current_player = IF made % 2 = 0 THEN "White" ELSE "Black"

\* Two successful moves have been made and it is White's turn again.
Wit_C4_TwoMoves ==
    nmoves = 2 /\ ~game_over /\ current_player = "White"

\* C5: a select_piece or attempt_move call that returns an error leaves the
\* grid, current player, selection, cached move list, game-over flag and
\* winner as they were.
Thm_C5_FailedCallsNoEffect ==
    /\ \A sq \in ArgSquares : SP(sq).err # Ok => SP(sq).gs = GS
    /\ \A from \in ArgSquares, to \in ArgSquares :
          LET out == AM(from, to)
          IN out.err # Ok => out.gs = GS

\* A position after a move, with a selection, in which calls fail for each
\* of the reasons: empty square, opponent's piece, same square, illegal
\* destination, coordinate off the board.
Wit_C5_FailuresOccur ==
    /\ nmoves > 0 /\ ~game_over /\ selected_square_coords # None
    /\ \E sq \in Squares : SP(sq).err = ErrNoPiece
    /\ \E sq \in Squares : SP(sq).err = ErrWrongColor
    /\ SP(OffBoard).err = ErrNoPiece
    /\ \E from \in Squares : AM(from, from).err = ErrSameSquare
    /\ \E from \in Squares : AM(from, OffBoard).err = ErrIllegal
    /\ \E from \in Squares, to \in Squares : AM(from, to).err = ErrIllegal
    /\ \E from \in Squares, to \in Squares : AM(from, to).err = ErrWrongColor

\* C6 (as claimed): for any from/to, mover colour and supplied move list, a
\* move_piece call that returns an error leaves the grid unchanged.
CE_C6_MovePieceAtomic ==
    \A from \in ArgSquares, to \in ArgSquares, player \in PlayerColor :
       \A valid_moves \in MoveLists(from, to) :
          LET mp == MP(from, to, player, valid_moves)
          IN mp.err # Ok => mp.grid = grid

\* The layout the code builds: White's ProductOwner, Developer and Designer in
\* columns 0, 1, 2 of row 0; Black's ProductOwner, Developer and Designer in
\* columns width-1, width-2, width-3 of the top row.
MirroredLayout ==
    [r \in 0 .. (height - 1) |-> [c \in 0 .. (width - 1) |->
        IF r = 0 /\ c = 0 THEN Some(Piece("ProductOwner", "White"))
        ELSE IF r = 0 /\ c = 1 THEN Some(Piece("Developer", "White"))
        ELSE IF r = 0 /\ c = 2 THEN Some(Piece("Designer", "White"))
        ELSE IF r = height - 1 /\ c = width - 1 THEN Some(Piece("ProductOwner", "Black"))
        ELSE IF r = height - 1 /\ c = width - 2 THEN Some(Piece("Developer", "Black"))
        ELSE IF r = height - 1 /\ c = width - 3 THEN Some(Piece("Designer", "Black"))
        ELSE None]]

\* The layout of the claim: both colours in columns 0, 1, 2 of their row.
LeftAlignedLayout ==
    [r \in 0 .. (height - 1) |-> [c \in 0 .. (width - 1) |->
        IF r = 0 /\ c = 0 THEN Some(Piece("ProductOwner", "White"))
        ELSE IF r = 0 /\ c = 1 THEN Some(Piece("Developer", "White"))
        ELSE IF r = 0 /\ c = 2 THEN Some(Piece("Designer", "White"))
        ELSE IF r = height - 1 /\ c = 0 THEN Some(Piece("ProductOwner", "Black"))
        ELSE IF r = height - 1 /\ c = 1 THEN Some(Piece("Developer", "Black"))
        ELSE IF r = height - 1 /\ c = 2 THEN Some(Piece("Designer", "Black"))
        ELSE None]]

\* C7 (amended): for every width and height in 6..12 the grid of a new board
\* holds exactly six pieces: White's ProductOwner, Developer, Designer in
\* columns 0, 1, 2 of row 0 and Black's ProductOwner, Developer, Designer in
\* the last three columns width-1, width-2, width-3 of the top row; every
\* other square is empty.
Thm_C7_InitialLayout ==
    nmoves = 0 => grid = MirroredLayout /\ PieceCount = 6

\* A new board wider than six columns, where the two layouts differ most.
Wit_C7_WideBoard ==
    /\ width = MAX_DIM /\ height = MIN_DIM + 1 /\ nmoves = 0
    /\ At(grid, <<height - 1, width - 1>>) = Some(Piece("ProductOwner", "Black"))
    /\ At(grid, <<height - 1, 0>>) = None

\* C7 (as claimed): Black's three pieces stand in columns 0, 1, 2 of the top
\* row of a new board.
CE_C7_LeftAlignedLayout ==
    nmoves = 0 => grid = LeftAlignedLayout

\* The current state with no selection.
Unselected ==
    [GS EXCEPT !.selected_square_coords = None,
               !.available_moves_for_selected = None]

\* The states that differ from the current one only by select_piece calls
\* made beforehand: none, or a call on any square.
SelectionVariants ==
    {Unselected} \cup {select_piece(Unselected, sq[1], sq[2]).gs : sq \in ArgSquares}

\* What attempt_move(from, to) returns and leaves behind, the selection aside.
Outcome(out) ==
    [err |-> out.err, captured |-> out.captured, position |-> Position(out.gs)]

\* C8: while the game is in progress, the outcome of attempt_move(from, to)
\* (success or which error, captured piece, resulting grid, current player,
\* game-over flag, winner) is the same whether no square, the from-square or
\* any other square was selected beforehand.
Thm_C8_SelectInformational ==
    ~game_over =>
        LET unselected == Unselected
            variants == SelectionVariants \cup {GS}
        IN \A from \in ArgSquares, to \in ArgSquares :
              LET base == Outcome(attempt_move(unselected, from[1], from[2],
                                               to[1], to[2]))
              IN \A v \in variants :
                    Outcome(attempt_move(v, from[1], from[2], to[1], to[2])) = base

\* A piece other than the moved one is selected, and the move of the other
\* piece succeeds.
Wit_C8_OtherSelected ==
    /\ ~game_over /\ nmoves > 0
    /\ \E from \in Squares, to \in Squares :
          /\ selected_square_coords # None
          /\ selected_square_coords # Some(from)
          /\ AM(from, to).err = Ok
          /\ AM(from, to).captured # None

\* C9: select_piece(r, c) fails exactly when the game is over, (r, c) is
\* empty or off the board, or the piece there is the opponent's; otherwise it
\* records (r, c) as the selection and caches calculate_valid_moves for that
\* square and piece on the current board; in every case the grid, current
\* player, game-over flag and winner are unchanged.
Thm_C9_SelectSemantics ==
    \A sq \in ArgSquares :
        LET out == SP(sq)
            onboard == sq \in Squares
            fails == \/ game_over
                     \/ ~onboard
                     \/ At(grid, sq) = None
                     \/ Unwrap(At(grid, sq)).color # current_player
        IN /\ Position(out.gs) = Position(GS)
           /\ out.gs.board = GS.board
           /\ (out.err # Ok) <=> fails
           /\ ~fails =>
                 /\ out.gs.selected_square_coords = Some(sq)
                 /\ out.gs.available_moves_for_selected =
                       Some(calculate_valid_moves(GS.board, sq[1], sq[2],
                                                  Unwrap(At(grid, sq))))

\* After a move, a piece of the player to move is selected and its cached
\* list is not empty.
Wit_C9_Selected ==
    /\ nmoves > 0 /\ ~game_over
    /\ selected_square_coords # None
    /\ Unwrap(At(grid, Unwrap(selected_square_coords))).color = current_player
    /\ available_moves_for_selected # None
    /\ Len(Unwrap(available_moves_for_selected)) > 0

\* The destinations of the legal moves of the piece on sq.
LegalDestinations(sq) ==
    LET moves == calculate_valid_moves(GS.board, sq[1], sq[2], Unwrap(At(grid, sq)))
    IN {<<moves[k].to_r, moves[k].to_c>> : k \in 1 .. Len(moves)}

\* The result the stated validation order gives attempt_move(from, to).
Classified(from, to) ==
    IF game_over THEN ErrGameOver
    ELSE IF from \notin Squares \/ At(grid, from) = None THEN ErrNoPiece
    ELSE IF Unwrap(At(grid, from)).color # current_player THEN ErrWrongColor
    ELSE IF from = to THEN ErrSameSquare
    ELSE IF to \notin LegalDestinations(from) THEN ErrIllegal
    ELSE Ok

\* C10: attempt_move(from, to) fails with the game-over error if the game is
\* over; else with the no-piece error if from is empty; else with the
\* opponent-piece error if the piece is not the current player's; else with
\* the same-square error if from = to; else with the illegal-destination
\* error if to is no legal destination of the piece; and succeeds otherwise,
\* whether or not from is the selected square.
Thm_C10_ErrorClassification ==
    \A from \in ArgSquares, to \in ArgSquares :
        AM(from, to).err = Classified(from, to)

\* With a square selected, a call from the selected square and a call from
\* another square both succeed, and calls of every error class exist.
Wit_C10_EveryClass ==
    /\ ~game_over /\ selected_square_coords # None
    /\ \E to \in Squares : AM(Unwrap(selected_square_coords), to).err = Ok
    /\ \E from \in Squares, to \in Squares :
          Some(from) # selected_square_coords /\ AM(from, to).err = Ok
    /\ \A e \in {ErrNoPiece, ErrWrongColor, ErrSameSquare, ErrIllegal} :
          \E from \in ArgSquares, to \in ArgSquares : AM(from, to).err = e

\* C11: from any reachable state, in progress (with or without a selection)
\* or over, restart leaves the state of a freshly constructed game: the
\* initial layout on the same board size, White to move, no selection, no
\* cached moves, game_over false, no winner; and in that state select_piece
\* and attempt_move succeed again.
Thm_C11_RestartResets ==
    [][Restart =>
          /\ width' = width /\ height' = height
          /\ grid' = MirroredLayout
          /\ current_player' = "White"
          /\ selected_square_coords' = None
          /\ available_moves_for_selected' = None
          /\ game_over' = FALSE
          /\ winner' = None
          /\ (\E sq \in Squares : SP(sq).err = Ok)'
          /\ (\E from \in Squares, to \in Squares : AM(from, to).err = Ok)']_vars

\* A finished game with a selection still recorded, which restart takes to
\* the fresh state.
Wit_C11_RestartFromOver ==
    /\ game_over /\ winner # None /\ selected_square_coords # None
    /\ GameStateNew(width, height).game_over = FALSE
    /\ GameStateNew(width, height).selected_square_coords = None

\* The moves calculate_valid_moves returns for a piece of type t and colour
\* col standing on sq of the current board, as a sequence and as a set.
MovesOf(t, col, sq) == calculate_valid_moves(GS.board, sq[1], sq[2], Piece(t, col))
MoveSet(moves) == {moves[k] : k \in 1 .. Len(moves)}

\* The offsets of the reference rule: the 8 neighbours, and the 8 L-shapes.
RoyalOffsets == {d \in (-1 .. 1) \X (-1 .. 1) : d # <<0, 0>>}
LeaperOffsets == {d \in (-2 .. 2) \X (-2 .. 2) : d[1] * d[1] + d[2] * d[2] = 5}

\* The moves of the reference rule for offsets offs: every offset square on
\* the board that is empty (no capture) or holds an opponent piece (capture),
\* with no jumped coordinate.
ReferenceLanding(offs, col, sq) ==
    {MoveDetail(t[1], t[2], At(grid, t) # None, None) :
        t \in {t \in Squares :
                  /\ <<t[1] - sq[1], t[2] - sq[2]>> \in offs
                  /\ (At(grid, t) = None \/ Unwrap(At(grid, t)).color # col)}}

\* C12: for every board, square and colour, calculate_valid_moves returns for
\* a ProductOwner exactly the squares at the 8 distance-1 offsets, and for a
\* Designer exactly those at the 8 offsets (+-1,+-2), (+-2,+-1), that are on
\* the board and empty (is_capture false) or hold an opponent piece
\* (is_capture true), each once; no destination holds a piece of the mover's
\* colour and no move carries a jumped coordinate.
Thm_C12_LandingMoves ==
    \A sq \in Squares, col \in PlayerColor :
        LET royal == MovesOf("ProductOwner", col, sq)
            leaper == MovesOf("Designer", col, sq)
        IN /\ MoveSet(royal) = ReferenceLanding(RoyalOffsets, col, sq)
           /\ Len(royal) = Cardinality(MoveSet(royal))
           /\ MoveSet(leaper) = ReferenceLanding(LeaperOffsets, col, sq)
           /\ Len(leaper) = Cardinality(MoveSet(leaper))
           /\ \A m \in MoveSet(royal) \cup MoveSet(leaper) :
                 /\ m.jumped_piece_coord = None
                 /\ At(grid, <<m.to_r, m.to_c>>) # None
                       => Unwrap(At(grid, <<m.to_r, m.to_c>>)).color # col

\* A ProductOwner stands next to a piece of its own colour and next to an
\* opponent piece it can capture, and a Designer has a capture too.
Wit_C12_CaptureAndBlock ==
    /\ \E sq \in Squares, t \in Squares, f \in Squares :
          /\ At(grid, sq) # None
          /\ Unwrap(At(grid, sq)).piece_type = "ProductOwner"
          /\ MoveDetail(t[1], t[2], TRUE, None)
                \in MoveSet(MovesOf("ProductOwner", Unwrap(At(grid, sq)).color, sq))
          /\ <<f[1] - sq[1], f[2] - sq[2]>> \in RoyalOffsets
          /\ At(grid, f) # None
          /\ Unwrap(At(grid, f)).color = Unwrap(At(grid, sq)).color
    /\ \E sq \in Squares :
          /\ At(grid, sq) # None
          /\ Unwrap(At(grid, sq)).piece_type = "Designer"
          /\ \E m \in MoveSet(MovesOf("Designer", Unwrap(At(grid, sq)).color, sq)) :
                m.is_capture

\* The square at distance n from sq in compass direction d.
Along(sq, d, n) == <<sq[1] + n * d[1], sq[2] + n * d[2]>>

CompassSet == {CompassDirs[i] : i \in 1 .. Len(CompassDirs)}

Destinations(moves) == {<<m.to_r, m.to_c>> : m \in MoveSet(moves)}

\* C13: for every board and every Developer position and colour, every move
\* calculate_valid_moves returns has an empty destination square, capture or
\* not; and every move marked as a capture carries a jumped coordinate that
\* lies strictly between origin and destination on their ray and holds a
\* piece of the opponent's colour.
Thm_C13_RunnerDestinations ==
    \A sq \in Squares, col \in PlayerColor :
        \A m \in MoveSet(MovesOf("Developer", col, sq)) :
            /\ At(grid, <<m.to_r, m.to_c>>) = None
            /\ m.is_capture =>
                  /\ m.jumped_piece_coord # None
                  /\ \E d \in CompassSet, n \in 2 .. 3, k \in 1 .. 2 :
                        /\ k < n
                        /\ <<m.to_r, m.to_c>> = Along(sq, d, n)
                        /\ Unwrap(m.jumped_piece_coord) = Along(sq, d, k)
                  /\ At(grid, Unwrap(m.jumped_piece_coord)) # None
                  /\ Unwrap(At(grid, Unwrap(m.jumped_piece_coord))).color
                        = opponent(col)

\* A Developer with moves stands next to an opponent piece.
Wit_C13_RunnerNextToOpponent ==
    \E sq \in Squares, d \in CompassSet :
        /\ At(grid, sq) # None
        /\ Unwrap(At(grid, sq)).piece_type = "Developer"
        /\ Along(sq, d, 1) \in Squares
        /\ At(grid, Along(sq, d, 1)) # None
        /\ Unwrap(At(grid, Along(sq, d, 1))).color
              = opponent(Unwrap(At(grid, sq)).color)
        /\ Len(MovesOf("Developer", Unwrap(At(grid, sq)).color, sq)) > 0

\* C14: on every board of 6..12 rows and columns, for every square and every
\* piece type and colour, each move calculate_valid_moves returns has a
\* destination on the board that is not the origin square.
Thm_C14_MovesOnBoard ==
    \A sq \in Squares, col \in PlayerColor, t \in PieceType :
        \A m \in MoveSet(MovesOf(t, col, sq)) :
            /\ 0 <= m.to_r /\ m.to_r < height
            /\ 0 <= m.to_c /\ m.to_c < width
            /\ <<m.to_r, m.to_c>> # sq

\* On the largest board, off its square sizes, every piece type has moves
\* from a corner and from an edge square.
Wit_C14_CornersAndEdges ==
    /\ height = MAX_DIM /\ width = MIN_DIM + 1 /\ nmoves = 1
    /\ \A sq \in {<<height - 1, width - 1>>, <<height - 1, 0>>, <<3, width - 1>>} :
          \A t \in PieceType : \E col \in PlayerColor : Len(MovesOf(t, col, sq)) > 0

\* C15: for every height and width in 6..12 and every row r < height and
\* column c < width, algebraic_to_coords of the text coords_to_algebraic
\* writes for (r, c) succeeds and returns (r, c).
Thm_C15_RoundTrip ==
    \A r \in 0 .. (height - 1), c \in 0 .. (width - 1) :
        algebraic_to_coords(coords_to_algebraic(r, c, height), height, width)
            = [err |-> Ok, coords |-> Some(<<r, c>>)]

\* On the 12 x 12 board the far corner is written "L12" and read back, a
\* board one row shorter rejects the same text, and a select command has
\* selected the piece at "b1".
Wit_C15_TwoDigitRow ==
    /\ height = MAX_DIM /\ width = MAX_DIM
    /\ coords_to_algebraic(11, 11, height) = <<76, 49, 50>>
    /\ algebraic_to_coords(<<76, 49, 50>>, height, width).coords = Some(<<11, 11>>)
    /\ algebraic_to_coords(<<76, 49, 50>>, height - 1, width).err = ErrRowBounds
    /\ algebraic_to_coords(<<98, 49>>, height, width).coords = selected_square_coords

\* C16: in every reachable state, whenever attempt_move(from, to) succeeds,
\* the piece on from belongs to the current player and to is a destination
\* of calculate_valid_moves for that piece on the board as it is at the call,
\* whatever square is selected and whatever list is cached.
Thm_C16_NoStaleMoveList ==
    \A from \in ArgSquares, to \in ArgSquares :
        AM(from, to).err = Ok =>
            /\ from \in Squares
            /\ At(grid, from) # None
            /\ Unwrap(At(grid, from)).color = current_player
            /\ to \in LegalDestinations(from)

\* After two moves a square is selected, and a move from the selected square
\* and a move from another square both succeed.
Wit_C16_CachedAndDirect ==
    /\ nmoves = 2
    /\ selected_square_coords # None
    /\ \E to \in Squares : AM(Unwrap(selected_square_coords), to).err = Ok
    /\ \E from \in Squares \ selected_square_coords, to \in Squares :
          AM(from, to).err = Ok

\* C17 (as claimed): in every reachable state, in progress or over, the
\* selection and the cached list are both absent or both present, and when
\* present the selected square holds a piece of the current player and the
\* cached list is calculate_valid_moves for that square on the current board.
CE_C17_CacheNeverOutlives ==
    /\ (selected_square_coords = None) <=> (available_moves_for_selected = None)
    /\ selected_square_coords # None =>
          LET sq == Unwrap(selected_square_coords)
          IN /\ At(grid, sq) # None
             /\ Unwrap(At(grid, sq)).color = current_player
             /\ Unwrap(available_moves_for_selected)
                   = calculate_valid_moves(GS.board, sq[1], sq[2], Unwrap(At(grid, sq)))

\* The square a successful move_piece(from, to) takes the captured piece
\* from, given the matched entry: the jumped coordinate for a Developer, the
\* destination for the other pieces; no square when the entry is no capture.
CaptureSquare(from, to, entry) ==
    IF ~entry.is_capture THEN None
    ELSE IF Unwrap(At(grid, from)).piece_type = "Developer"
         THEN entry.jumped_piece_coord
         ELSE Some(to)

\* Grid g with the squares of set sqs put back as they are in the current
\* grid: it equals the current grid exactly when g differs from it on no
\* square outside sqs.
RECURSIVE Restored(_, _)
Restored(g, sqs) ==
    IF sqs = {} THEN g
    ELSE LET q == CHOOSE q \in sqs : TRUE
         IN Restored(Put(g, q[1], q[2], At(grid, q)), sqs \ {q})

\* The effect and frame of one successful call, given the matched entry and
\* the piece the call is to return.
MoveEffect(from, to, entry, mp, expected) ==
    LET mover == Unwrap(At(grid, from))
        capsq == CaptureSquare(from, to, entry)
    IN /\ At(mp.grid, from) = None
       /\ At(mp.grid, to) = Some(mover)
       /\ mp.captured = expected
       /\ \A q \in capsq : q # to => At(mp.grid, q) = None
       /\ capsq = None => mp.captured = None
       /\ Restored(mp.grid, {from, to} \cup capsq) = grid

\* C18 (as claimed): when move_piece succeeds, the source square is empty,
\* the destination holds the moved piece, the returned piece is the piece that
\* was on the destination (ProductOwner or Designer capture) or on the jumped
\* coordinate (Developer capture) and that square no longer holds it, a
\* non-capture returns no piece, and every other square is unchanged. Stated
\* for every call that can succeed: a piece on the source square, moved by
\* the player of its colour, with a supplied list whose entry names the
\* destination, the jumped coordinate being absent or any square.
CE_C18_MoveEffectAsClaimed ==
    LET occupied == {sq \in Squares : At(grid, sq) # None}
    IN \A from \in occupied, to \in Squares, cap \in BOOLEAN, j \in JumpArgs :
          LET entry == MoveDetail(to[1], to[2], cap, j)
              capsq == CaptureSquare(from, to, entry)
              was_there == IF capsq = None THEN None ELSE At(grid, Unwrap(capsq))
          IN \A mp \in {MP(from, to, Unwrap(At(grid, from)).color, << entry >>)} :
                mp.err = Ok => MoveEffect(from, to, entry, mp, was_there)

\* C18 (amended): as claimed, except that the returned piece of a Developer
\* capture is the piece found on the jumped coordinate once the source
\* square has been cleared: the piece that was there, and no piece when the
\* jumped coordinate is the source square itself. Same calls.
Thm_C18_MoveEffect ==
    LET occupied == {sq \in Squares : At(grid, sq) # None}
    IN \A from \in occupied, to \in Squares, cap \in BOOLEAN, j \in JumpArgs :
          LET entry == MoveDetail(to[1], to[2], cap, j)
              capsq == CaptureSquare(from, to, entry)
              found == IF capsq = None \/ capsq = Some(from) THEN None
                       ELSE At(grid, Unwrap(capsq))
          IN \A mp \in {MP(from, to, Unwrap(At(grid, from)).color, << entry >>)} :
                mp.err = Ok => MoveEffect(from, to, entry, mp, found)

\* A capture has been made, and in the position after it a Developer capture
\* over a piece between source and destination, a Developer capture whose
\* jumped coordinate is the source square (it returns no piece), a capture
\* on the destination and a non-capture all succeed.
Wit_C18_EveryKindOfMove ==
    /\ nmoves = 1 /\ PieceCount = 5
    /\ \E from \in Squares, to \in Squares, j \in Squares :
          /\ j \notin {from, to}
          /\ At(grid, from) # None /\ At(grid, j) # None
          /\ Unwrap(At(grid, from)).piece_type = "Developer"
          /\ MP(from, to, Unwrap(At(grid, from)).color,
                << MoveDetail(to[1], to[2], TRUE, Some(j)) >>).captured = At(grid, j)
    /\ \E from \in Squares, to \in Squares :
          /\ At(grid, from) # None
          /\ Unwrap(At(grid, from)).piece_type = "Developer"
          /\ MP(from, to, Unwrap(At(grid, from)).color,
                << MoveDetail(to[1], to[2], TRUE, Some(from)) >>)
                = [grid |-> Put(Put(grid, from[1], from[2], None), to[1], to[2],
                                At(grid, from)),
                   err |-> Ok, captured |-> None]
    /\ \E from \in Squares, to \in Squares :
          /\ At(grid, from) # None /\ At(grid, to) # None
          /\ Unwrap(At(grid, from)).piece_type = "Designer"
          /\ MP(from, to, Unwrap(At(grid, from)).color,
                << MoveDetail(to[1], to[2], TRUE, None) >>).captured = At(grid, to)
    /\ \E from \in Squares, to \in Squares :
          /\ At(grid, from) # None
          /\ MP(from, to, Unwrap(At(grid, from)).color,
                << MoveDetail(to[1], to[2], FALSE, None) >>).err = Ok

\* C19: for every board, Developer position and colour and compass
\* direction, if the square at distance dist (1 <= dist <= 3) in that
\* direction is off the board or occupied, no destination at distance dist
\* or more in that direction is returned; and every empty on-board square at
\* distance 1 is returned as a non-capture move.
Thm_C19_RaysStopAtObstacle ==
    \A sq \in Squares, col \in PlayerColor :
        LET moves == MovesOf("Developer", col, sq)
            dests == Destinations(moves)
        IN \A d \in CompassSet :
              /\ \A dist \in 1 .. 3 :
                    (Along(sq, d, dist) \notin Squares \/ At(grid, Along(sq, d, dist)) # None)
                       => \A n \in dist .. 3 : Along(sq, d, n) \notin dests
              /\ (Along(sq, d, 1) \in Squares /\ At(grid, Along(sq, d, 1)) = None)
                    => MoveDetail(Along(sq, d, 1)[1], Along(sq, d, 1)[2], FALSE, None)
                          \in MoveSet(moves)

\* A Developer on the board has a piece at distance 2 on a ray with empty
\* squares at distances 1 and 3, and moves to distance 1 but not to 3.
Wit_C19_BlockedRay ==
    \E sq \in Squares, d \in CompassSet :
        /\ At(grid, sq) # None
        /\ Unwrap(At(grid, sq)).piece_type = "Developer"
        /\ Along(sq, d, 3) \in Squares
        /\ At(grid, Along(sq, d, 1)) = None
        /\ At(grid, Along(sq, d, 2)) # None
        /\ At(grid, Along(sq, d, 3)) = None
        /\ Along(sq, d, 1) \in LegalDestinations(sq)
        /\ Along(sq, d, 3) \notin LegalDestinations(sq)

\* C20: for every board and every Developer position and colour, every move
\* calculate_valid_moves returns has is_capture false and no jumped
\* coordinate; on every ray, at every distance whose nearer squares and
\* target are empty, the path scan finds no piece (neither the blocked-by-
\* friendly nor the two-opponents branch is taken); and no successful
\* attempt_move of a Developer returns or removes a piece.
Thm_C20_RunnerNeverCaptures ==
    /\ \A sq \in Squares, col \in PlayerColor :
          /\ \A m \in MoveSet(MovesOf("Developer", col, sq)) :
                ~m.is_capture /\ m.jumped_piece_coord = None
          /\ \A d \in CompassSet, dist \in 1 .. 3 :
                (\A n \in 1 .. dist :
                    Along(sq, d, n) \in Squares /\ At(grid, Along(sq, d, n)) = None)
                   => LET scan == PathScan(GS.board, sq[1], sq[2],
                                           Piece("Developer", col), d[1], d[2], dist, 1, None)
                      IN /\ ~scan.path_blocked_by_friendly
                         /\ ~scan.multiple_opponents_on_path
                         /\ scan.jumped_piece_on_path = None
    /\ LET runners == {sq \in Squares : At(grid, sq) = Some(Piece("Developer", current_player))}
           count == PieceCount
       IN \A from \in runners, to \in ArgSquares :
             LET out == AM(from, to)
             IN out.err = Ok =>
                   /\ out.captured = None
                   /\ Cardinality({q \in Squares : At(out.gs.board.grid, q) # None})
                         = count

\* A Developer of the player to move stands in line with an opponent piece
\* two squares away, the square beyond it empty, and has a move.
Wit_C20_JumpOffered ==
    \E sq \in Squares, d \in CompassSet :
        /\ At(grid, sq) = Some(Piece("Developer", current_player))
        /\ Along(sq, d, 3) \in Squares
        /\ At(grid, Along(sq, d, 1)) = None
        /\ At(grid, Along(sq, d, 2)) # None
        /\ Unwrap(At(grid, Along(sq, d, 2))).color = opponent(current_player)
        /\ At(grid, Along(sq, d, 3)) = None
        /\ \E to \in Squares : AM(sq, to).err = Ok

\* The squares that hold a piece of colour col.
PiecesOf(col) ==
    {sq \in Squares : At(grid, sq) # None /\ Unwrap(At(grid, sq)).color = col}

\* C21: in every reachable state in which the game is not over, on every
\* board of 6..12 rows and columns, the current player has a piece whose
\* calculate_valid_moves list is not empty, and some attempt_move succeeds.
Thm_C21_NoStalemate ==
    ~game_over =>
        /\ \E sq \in PiecesOf(current_player) : LegalDestinations(sq) # {}
        /\ \E from \in PiecesOf(current_player) :
              \E to \in LegalDestinations(from) : AM(from, to).err = Ok

\* On the largest board, one short of square, Black is to move after White's
\* first move, and its ProductOwner in the corner has a move.
Wit_C21_BlackToMove ==
    /\ height = MAX_DIM /\ width = MAX_DIM - 1
    /\ nmoves = 1 /\ ~game_over /\ current_player = "Black"
    /\ At(grid, <<height - 1, width - 1>>) = Some(Piece("ProductOwner", "Black"))
    /\ LegalDestinations(<<height - 1, width - 1>>) # {}
    /\ \E to \in Squares : AM(<<height - 1, width - 1>>, to).err = Ok

\* C22: in every reachable state game_over is true exactly when winner is
\* set; when the game is over the winner is the current player (the winning
\* move does not pass the turn), the winner's ProductOwner is on the board
\* and the loser's is not.
Thm_C22_OutcomeConsistency ==
    /\ game_over <=> winner # None
    /\ game_over =>
          /\ winner = Some(current_player)
          /\ RoyalCount(current_player) = 1
          /\ RoyalCount(opponent(current_player)) = 0

\* White has won: the game is over with White still the current player and
\* no Black ProductOwner on the board.
Wit_C22_WhiteWon ==
    /\ game_over /\ winner = Some("White") /\ current_player = "White"
    /\ RoyalCount("Black") = 0 /\ RoyalCount("White") = 1

\* The number of pieces of colour col on grid g.
CountOf(g, col) ==
    Cardinality({sq \in Squares : At(g, sq) # None /\ Unwrap(At(g, sq)).color = col})

\* C23: in every reachable state each colour has at most one piece of each
\* type (at most six pieces in all); a successful attempt_move leaves the
\* number of the mover's pieces as it is and lowers the opponent's by one
\* when it reports a capture and by none otherwise, the captured piece being
\* the opponent's; and no select_piece or attempt_move call, successful or
\* not, adds a piece of either colour.
Thm_C23_PieceConservation ==
    /\ \A col \in PlayerColor, t \in PieceType :
          Cardinality({sq \in Squares : At(grid, sq) = Some(Piece(t, col))}) <= 1
    /\ PieceCount <= 6
    /\ LET mine == CountOf(grid, current_player)
           theirs == CountOf(grid, opponent(current_player))
       IN /\ \A sq \in ArgSquares :
                \A out \in {SP(sq)} :
                   /\ CountOf(out.gs.board.grid, current_player) <= mine
                   /\ CountOf(out.gs.board.grid, opponent(current_player)) <= theirs
          /\ \A from \in ArgSquares, to \in ArgSquares :
                \A out \in {AM(from, to)} :
                   /\ CountOf(out.gs.board.grid, current_player) <= mine
                   /\ CountOf(out.gs.board.grid, opponent(current_player)) <= theirs
                   /\ out.err = Ok =>
                         /\ CountOf(out.gs.board.grid, current_player) = mine
                         /\ CountOf(out.gs.board.grid, opponent(current_player))
                               = theirs - Cardinality(out.captured)
                         /\ \A cp \in out.captured : cp.color = opponent(current_player)

\* White has captured a Black piece and the game goes on; Black, to move, has
\* a move that captures and a move that captures nothing.
Wit_C23_CaptureAndRecapture ==
    /\ ~game_over /\ current_player = "Black"
    /\ CountOf(grid, "White") = 3 /\ CountOf(grid, "Black") = 2
    /\ \E from \in Squares, to \in Squares :
          AM(from, to).err = Ok /\ AM(from, to).captured # None
    /\ \E from \in Squares, to \in Squares :
          AM(from, to).err = Ok /\ AM(from, to).captured = None

====
